---- MODULE Spec2Model ----
(***************************************************************************)
(* The streaming bridge of CS_Agent: the ws_chat connection handler        *)
(* (backend/app/routers/ws.py), the upstream worker request_stream_sync    *)
(* (backend/app/services/streamer.py) and the session store                *)
(* conversation_sessions (a cachetools.TTLCache) they share.               *)
(*                                                                         *)
(* Texts are sequences of tokens: <<>> is the empty string, joining is     *)
(* concatenation.  A connection is identified by id(websocket), here an    *)
(* element of Conns.                                                       *)
(***************************************************************************)
EXTENDS Integers, Sequences, FiniteSets, TLC

(***************************************************************************)
(* Bounds of the model.                                                    *)
(***************************************************************************)
MaxHistCfg == 2
MaxMsgs == 2
MaxLines == 1
DoneCap == 1
MaxStoreSize == 2
MaxChoices == 2
MaxRetries == 1
MaxInits == 2

(***************************************************************************)
(* Program constants.                                                      *)
(***************************************************************************)
max_message_size == 10 * 1024
CHUNK_SIZE == 80

\* The connections: 1 is followed in full; 2 is a second client of the same
\* handler that only pings, clears and leaves (profile "duo").
Conns == {1, 2}

VARIABLES
    profile,                \* which environment is explored ("solo" or "duo")
    history_max_length,     \* settings.history_max_length
    conversation_sessions,  \* the TTLCache: [data, lru, links, stale]
    alive,                  \* alive[c]: the client end of the socket is open
    pc,                     \* pc[c]: the handler's position
    raw,                    \* raw[c]: the inbound frame just received
    out,                    \* out[c]: frames written since that frame was read
    user_msg,               \* user_msg[c]
    history,                \* history[c]: the list fetched at ws.py:87
    q,                      \* q[c]: the per-exchange asyncio.Queue
    calls,                  \* calls[c]: _put callbacks scheduled on the loop
    assistant_response,     \* assistant_response[c]: fragments collected
    wpc,                    \* wpc[c]: the worker's position
    wmessages,              \* wmessages[c]: messages the worker sends upstream
    sent,                   \* sent[c]: the requests the worker has issued
    wtext,                  \* wtext[c]: text the worker still has to emit
    nlines,                 \* nlines[c]: lines read from the stream so far
    client_open,            \* client_open[c]: the worker's httpx.Client exists
                            \* and has not been closed
    resp_open,              \* resp_open[c]: the streaming response is open
    ndone,                  \* ndone[c]: exchanges ended with done since the
                            \* session was last emptied (counts up to DoneCap)
    cleared,                \* cleared[c]: clear_history was handled and no
                            \* exchange has been completed since
    in_part,                \* the payload _extract_text_from_part is called on
    extracted,              \* whether it was called, and what it returned
    max_retries,            \* server.py: MAX_RETRIES
    spc,                    \* server.py: the position of websocket_chat
    salive,                 \* server.py: the client end of its socket is open
    ninit,                  \* server.py: chat requests taken up so far
    attempt,                \* _call_sync_with_timeout_and_retries: attempt
    execs,                  \* the executor calls of fn it has made, in order
    abandoned,              \* calls of fn still running after their timeout
    outcome,                \* how _call_sync_with_timeout_and_retries ended
    sout                    \* server.py: frames written for the last frame read

vars == <<profile, history_max_length, conversation_sessions, alive, pc, raw,
          out, user_msg, history, q, calls, assistant_response, wpc,
          wmessages, sent, wtext, nlines, client_open, resp_open, ndone,
          cleared, in_part, extracted, max_retries, spc, salive, ninit,
          attempt, execs, abandoned, outcome, sout>>

(***************************************************************************)
(* Sequence helpers.                                                       *)
(***************************************************************************)
Min(a, b) == IF a < b THEN a ELSE b

Range(s) == {s[i] : i \in 1..Len(s)}

Without(s, k) == SelectSeq(s, LAMBDA x : x # k)

\* Python's s[-n:] for n >= 0: the last n elements, and all of s when n = 0
\* (s[-0:] is s[0:]) or n >= len(s).
LastN(s, n) ==
    IF n = 0 \/ n >= Len(s) THEN s ELSE SubSeq(s, Len(s) - n + 1, Len(s))

RECURSIVE Join(_)
\* "".join(parts)
Join(parts) == IF parts = <<>> THEN <<>> ELSE Head(parts) \o Join(Tail(parts))

(***************************************************************************)
(* The session store: conversation_sessions = TTLCache(maxsize, ttl).      *)
(*   data   the mapping key -> value (entries physically present)          *)
(*   lru    the keys, least recently used first (reads and writes count)   *)
(*   links  the keys in order of expiry, soonest first (writes only)       *)
(*   stale  how many leading keys of links have outlived the ttl           *)
(*   maxsize  the capacity the cache was constructed with                  *)
(* All entries share one ttl, so they time out in the order of links; how  *)
(* much time passes between two steps is not constrained.                  *)
(* The code constructs the cache for 1000 sessions; the model constructs   *)
(* it for 1..MaxStoreSize, so that its two connections meet a full cache   *)
(* as well as one with room.                                               *)
(***************************************************************************)
\* TTLCache(maxsize=m, ttl=3600)
TTLCache(m) ==
    [data |-> <<>>, lru |-> <<>>, links |-> <<>>, stale |-> 0, maxsize |-> m]

Present(S, k) == k \in DOMAIN S.data

TimedOut(S, k) == \E i \in 1..S.stale : S.links[i] = k

\* key in cache: present and not timed out (reads do not reorder).
Contains(S, k) == Present(S, k) /\ ~TimedOut(S, k)

Drop(S, k) ==
    [data  |-> [j \in DOMAIN S.data \ {k} |-> S.data[j]],
     lru   |-> Without(S.lru, k),
     links |-> Without(S.links, k),
     stale |-> S.stale - (IF TimedOut(S, k) THEN 1 ELSE 0),
     maxsize |-> S.maxsize]

RECURSIVE Expire(_)
\* expire(): entries that timed out are removed for good.
Expire(S) == IF S.stale = 0 THEN S ELSE Expire(Drop(S, Head(S.links)))

RECURSIVE MakeRoom(_, _)
\* Cache.__setitem__: a new key evicts least recently used entries while
\* the cache is full.
MakeRoom(S, k) ==
    IF ~Present(S, k) /\ Cardinality(DOMAIN S.data) + 1 > S.maxsize
        THEN MakeRoom(Drop(S, Head(S.lru)), k)
        ELSE S

\* cache[k] = v: expire, make room, store, and k becomes the most recently
\* used and the last to expire.
SetItem(S, k, v) ==
    LET R == MakeRoom(Expire(S), k)
    IN  [data  |-> [j \in DOMAIN R.data \cup {k} |->
                        IF j = k THEN v ELSE R.data[j]],
         lru   |-> Append(Without(R.lru, k), k),
         links |-> Append(Without(R.links, k), k),
         stale |-> R.stale,
         maxsize |-> R.maxsize]

\* cache[k] succeeds only for an entry that is present and not timed out.
GetOk(S, k) == Contains(S, k)

\* cache[k] marks a present key as used, also when it then raises KeyError.
Touch(S, k) ==
    IF Present(S, k) THEN [S EXCEPT !.lru = Append(Without(S.lru, k), k)]
    ELSE S

\* "if k in cache: del cache[k]".
Cleanup(S, k) == IF Contains(S, k) THEN Drop(S, k) ELSE S

\* history.append(...) on the list object held by the cache.
Mutate(S, k, v) ==
    IF Present(S, k) THEN [S EXCEPT !.data[k] = v] ELSE S

Turns(S, k) == IF Contains(S, k) THEN S.data[k] ELSE <<>>

(***************************************************************************)
(* Decoded upstream payloads.  A JSON value that a text field may hold is  *)
(* [t, s]: t = "str" with the text s, t = "num" for a truthy value that is *)
(* no string, t = "absent" for a missing key or a falsy non-string (None,  *)
(* 0, false), which every test of the extractor treats alike.              *)
(***************************************************************************)
Absent == [t |-> "absent", s |-> <<>>]
Str(x) == [t |-> "str", s |-> x]
Num == [t |-> "num", s |-> <<>>]

IsText(v) == v.t = "str" /\ v.s # <<>>        \* isinstance(v, str) and v != ""
Truthy(v) == IsText(v) \/ v.t = "num"
Or(a, b) == IF Truthy(a) THEN a ELSE b       \* Python's a or b

NoDelta == [t |-> "absent", content |-> Absent, text |-> Absent]
NoMessage == [t |-> "absent", content |-> Absent]

EmptyPart ==
    [message |-> NoMessage, response |-> Absent, response_text |-> Absent,
     text |-> Absent, output |-> Absent, content |-> Absent,
     choices |-> [t |-> "absent", items |-> <<>>], done |-> FALSE]

FlatKeys == <<"response", "response_text", "text", "output", "content">>

Flat(part, key) ==
    CASE key = "response" -> part.response
      [] key = "response_text" -> part.response_text
      [] key = "text" -> part.text
      [] key = "output" -> part.output
      [] OTHER -> part.content

RECURSIVE FirstFlat(_, _)
\* for key in (...): v = part.get(key); if isinstance(v, str) and v != ""
FirstFlat(part, keys) ==
    IF keys = <<>> THEN Absent
    ELSE IF IsText(Flat(part, Head(keys))) THEN Flat(part, Head(keys))
    ELSE FirstFlat(part, Tail(keys))

\* One pass of the loop body over a choice: the text it returns, or Absent.
ChoiceText(c) ==
    IF ~c.isdict THEN Absent
    ELSE LET cont == IF c.delta.t = "dict"
                         THEN Or(c.delta.content, c.delta.text)
                         ELSE Absent
         IN  IF c.delta.t \in {"dict", "absent"} /\ IsText(cont) THEN cont
             ELSE IF IsText(c.text) THEN c.text
             ELSE Absent

RECURSIVE FirstChoice(_)
FirstChoice(items) ==
    IF items = <<>> THEN Absent
    ELSE IF ChoiceText(Head(items)) # Absent THEN ChoiceText(Head(items))
    ELSE FirstChoice(Tail(items))

\* Variant of ExtractTextFromPart: the choices are searched before the flat
\* fields.
ExtractChoicesFirst(p) ==
    IF p.message.t = "dict" /\ IsText(p.message.content)
        THEN p.message.content
    ELSE IF p.choices.t = "list" /\ FirstChoice(p.choices.items) # Absent
        THEN FirstChoice(p.choices.items)
    ELSE FirstFlat(p, FlatKeys)

\* _extract_text_from_part: Absent stands for None.
ExtractTextFromPart(part) ==
    IF part.message.t = "dict" /\ IsText(part.message.content)
        THEN part.message.content
    ELSE IF FirstFlat(part, FlatKeys) # Absent
        THEN FirstFlat(part, FlatKeys)
    ELSE IF part.choices.t = "list"
        THEN FirstChoice(part.choices.items)
    ELSE Absent

\* The payloads the extractor is called on.  A field holds nothing, the
\* empty string, a value that is no string, or a text of its own.
TextVals(x) == {Absent, Str(<<>>), Num, Str(<<x>>)}

Messages ==
    {NoMessage, [t |-> "other", content |-> Absent]}
    \cup {[t |-> "dict", content |-> v] : v \in TextVals("m")}

Delta(content, text) == [t |-> "dict", content |-> content, text |-> text]

Choice(isdict, delta, text) == [isdict |-> isdict, delta |-> delta, text |-> text]

\* 1, {"text": "a"}, {"delta": {"content": "b"}}, {"delta": {"text": "d"}},
\* {"delta": {"content": "", "text": "d"}, "text": "a"},
\* {"delta": 1, "text": "a"}, {}
Choices ==
    {Choice(FALSE, NoDelta, Absent),
     Choice(TRUE, NoDelta, Str(<<"a">>)),
     Choice(TRUE, Delta(Str(<<"b">>), Absent), Absent),
     Choice(TRUE, Delta(Absent, Str(<<"d">>)), Absent),
     Choice(TRUE, Delta(Str(<<>>), Str(<<"d">>)), Str(<<"a">>)),
     Choice(TRUE, [t |-> "other", content |-> Absent, text |-> Absent],
            Str(<<"a">>)),
     Choice(TRUE, NoDelta, Absent)}

ChoiceLists ==
    {[t |-> "absent", items |-> <<>>], [t |-> "other", items |-> <<>>]}
    \cup {[t |-> "list", items |-> cs] :
             cs \in UNION {[1..n -> Choices] : n \in 0..MaxChoices}}

Parts ==
    {[message |-> m, response |-> r, response_text |-> rt, text |-> t,
      output |-> o, content |-> c, choices |-> ch, done |-> FALSE] :
        m \in Messages, r \in TextVals("r"),
        rt \in {Absent, Str(<<"rt">>)}, t \in {Absent, Num, Str(<<"t">>)},
        o \in {Absent, Str(<<"o">>)}, c \in {Absent, Str(<<>>), Str(<<"c">>)},
        ch \in ChoiceLists}

NotCalled == [called |-> FALSE, value |-> Absent]
Returned(v) == [called |-> TRUE, value |-> v]

(***************************************************************************)
(* Inbound frames.  size is len(raw); kind says what json.loads makes of   *)
(* the text; an object carries its "type" and its "messages" (mkind is     *)
(* "absent", "list", or "scalar" for a value that cannot be iterated or    *)
(* whose items are no objects: null, a number, a non-empty string).        *)
(***************************************************************************)
Turn(role, content) == [role |-> role, content |-> content]

Entry(obj, role, content) == [obj |-> obj, role |-> role, content |-> content]

UserContents == {<<>>, <<"a">>, <<"b">>}

Entries ==
    {Entry(FALSE, "none", <<>>)}
    \cup {Entry(TRUE, "user", t) : t \in UserContents}
    \cup {Entry(TRUE, "assistant", <<"a">>)}

MsgLists == UNION {[1..n -> Entries] : n \in 0..MaxMsgs}

Frame(size, kind, type, mkind, messages) ==
    [size |-> size, kind |-> kind, type |-> type, mkind |-> mkind,
     messages |-> messages]

NoFrame == Frame(0, "none", "none", "absent", <<>>)

Sizes == {max_message_size - 1, max_message_size, max_message_size + 1}

Bodies ==
    {Frame(0, k, "none", "absent", <<>>) :
        k \in {"notjson", "array", "string", "number", "null"}}
    \cup {Frame(0, "object", t, "absent", <<>>) : t \in {"ping", "clear_history"}}
    \cup {Frame(0, "object", "none", k, <<>>) : k \in {"absent", "scalar"}}
    \cup {Frame(0, "object", "none", "list", ms) : ms \in MsgLists}

Frames == {[b EXCEPT !.size = n] : b \in Bodies, n \in Sizes}

(***************************************************************************)
(* ws_chat: what the handler makes of one inbound frame.                   *)
(***************************************************************************)
\* Variant of TooLarge: a frame of exactly the maximum is rejected too.
TooLargeInclusive(r) == r.size >= max_message_size

\* len(raw) > settings.max_message_size
TooLarge(r) == r.size > max_message_size

\* json.loads(raw) returns
Decodes(r) == r.kind # "notjson"

\* payload.get exists
IsObject(r) == r.kind = "object"

NoUser == [raised |-> FALSE, found |-> FALSE, content |-> <<>>]

RECURSIVE UserMsg(_)
\* next((m.get("content") for m in messages if m.get("role") == "user"), None)
\* raised: an item without .get was reached before a user entry was found.
UserMsg(messages) ==
    IF messages = <<>> THEN NoUser
    ELSE IF ~Head(messages).obj THEN [NoUser EXCEPT !.raised = TRUE]
    ELSE IF Head(messages).role = "user"
        THEN [NoUser EXCEPT !.found = TRUE, !.content = Head(messages).content]
    ELSE UserMsg(Tail(messages))

\* payload.get("messages", []) and the scan for the user message
Scan(r) ==
    IF r.mkind = "scalar" THEN [NoUser EXCEPT !.raised = TRUE]
    ELSE IF r.mkind = "absent" THEN NoUser
    ELSE UserMsg(r.messages)

\* The branch of the receive loop body the frame takes (ws.py:51-82).
Branch(r) ==
    IF TooLarge(r) THEN "too_large"
    ELSE IF ~Decodes(r) THEN "bad_json"
    ELSE IF ~IsObject(r) THEN "raise"
    ELSE IF r.type = "ping" THEN "ping"
    ELSE IF r.type = "clear_history" THEN "clear"
    ELSE IF Scan(r).raised THEN "raise"
    ELSE IF ~Scan(r).found \/ Scan(r).content = <<>> THEN "missing"
    ELSE "chat"

Chunk(type, text) == [type |-> type, text |-> text]

ErrorFrame(what) == Chunk("error", <<what>>)

\* Variant of Terminal: only done ends the exchange.
TerminalDoneOnly(ch) == ch.type = "done"

Terminal(ch) == ch.type \in {"done", "error"}

(***************************************************************************)
(* request_stream_sync: what the upstream may answer, and what the worker  *)
(* makes of it.  Text fields of upstream payloads are strings when present.*)
(***************************************************************************)
WithMessage(x) ==
    [EmptyPart EXCEPT !.message = [t |-> "dict", content |-> Str(x)]]

Line(form, part, text) == [form |-> form, part |-> part, text |-> text]

\* form: "empty" (a blank line, or nothing after "data:"), "DONE" (the
\* literal [DONE]), "text" (no JSON), "scalar" (JSON that is no object),
\* "dict" (a JSON object, decoded as part).
StreamParts ==
    {EmptyPart, [EmptyPart EXCEPT !.done = TRUE],
     WithMessage(<<"x">>), [WithMessage(<<"x">>) EXCEPT !.done = TRUE],
     [EmptyPart EXCEPT !.response = Str(<<"x">>)]}

StreamLines ==
    {Line("empty", EmptyPart, <<>>), Line("DONE", EmptyPart, <<>>),
     Line("text", EmptyPart, <<"x">>), Line("scalar", EmptyPart, <<>>)}
    \cup {Line("dict", p, <<>>) : p \in StreamParts}

Act(kind, text) == [kind |-> kind, text |-> text]

\* {"model": m, "messages": messages, "stream": stream} posted to ENDPOINT
Request(stream, messages) == [stream |-> stream, messages |-> messages]

\* Variant of LineAct: done = true is not looked at.
LineActIgnoresDone(line) ==
    IF line.form = "empty" THEN Act("skip", <<>>)
    ELSE IF line.form = "DONE" THEN Act("done", <<>>)
    ELSE IF line.form = "text" THEN Act("delta", line.text)
    ELSE IF line.form = "scalar" THEN Act("raise", <<>>)
    ELSE IF ExtractTextFromPart(line.part) = Absent THEN Act("skip", <<>>)
    ELSE Act("delta", ExtractTextFromPart(line.part).s)

\* The body of "for raw in resp.iter_lines()" (streamer.py:115-155) for one
\* line: skip it, emit delta, emit done, emit delta then done, or raise
\* (AttributeError of _extract_text_from_part on a non-object).
LineAct(line) ==
    IF line.form = "empty" THEN Act("skip", <<>>)
    ELSE IF line.form = "DONE" THEN Act("done", <<>>)
    ELSE IF line.form = "text" THEN Act("delta", line.text)
    ELSE IF line.form = "scalar" THEN Act("raise", <<>>)
    ELSE IF line.part.done
        THEN IF ExtractTextFromPart(line.part) # Absent
                 THEN Act("delta_done", ExtractTextFromPart(line.part).s)
                 ELSE Act("done", <<>>)
    ELSE IF ExtractTextFromPart(line.part) = Absent THEN Act("skip", <<>>)
    ELSE Act("delta", ExtractTextFromPart(line.part).s)

\* The answer to the non-streaming request: json says whether resp2.json()
\* gives an object (part); rawtext is resp2.text.
Body(json, part, rawtext) == [json |-> json, part |-> part, rawtext |-> rawtext]

\* {"message": {"content": "xy"}}, {"response": "xy"}, a body that is no
\* JSON object and has no text, and {"message": {"content": 5}}
FallbackBodies ==
    {Body(TRUE, WithMessage(<<"x", "y">>), <<>>),
     Body(TRUE, [EmptyPart EXCEPT !.response = Str(<<"x", "y">>)], <<>>),
     Body(FALSE, EmptyPart, <<>>),
     Body(TRUE, [EmptyPart EXCEPT !.message = [t |-> "dict", content |-> Num]],
          <<>>)}

\* json.dumps(j) of an object: never empty.
Dumps(part) == <<"{json}">>

\* The text of the fallback answer (streamer.py:181-199).
FallbackText(body) ==
    IF body.json
        THEN LET mc == IF body.part.message.t = "dict"
                           THEN body.part.message.content ELSE Absent
                 t1 == IF Truthy(mc) THEN mc
                       ELSE Or(body.part.response,
                               Or(body.part.text,
                                  Or(body.part.output, body.part.content)))
             IN  IF Truthy(t1) THEN t1.s ELSE Dumps(body.part)
        ELSE body.rawtext

\* streamer.py:206: len(text) raises TypeError for a text that is truthy and
\* no string; the exception is raised inside the "except" clause of line 160
\* and leaves request_stream_sync.
FallbackRaises(body) ==
    /\ body.json
    /\ LET mc == IF body.part.message.t = "dict"
                     THEN body.part.message.content ELSE Absent
           t1 == IF Truthy(mc) THEN mc
                 ELSE Or(body.part.response,
                         Or(body.part.text,
                            Or(body.part.output, body.part.content)))
       IN  t1.t = "num"

\* text[i: i + CHUNK_SIZE] and the rest
FirstChunk(text) == SubSeq(text, 1, Min(CHUNK_SIZE, Len(text)))
RestChunks(text) == SubSeq(text, Min(CHUNK_SIZE, Len(text)) + 1, Len(text))

(***************************************************************************)
(* The environments explored.  "solo": connection 1 alone, with every      *)
(* inbound frame of Frames.  "duo": connection 2 is open as well and holds *)
(* a session with one recorded exchange; its client sends ping and         *)
(* clear_history only, and connection 1's client sends the frames of       *)
(* DuoFrames; one line of each stream is followed.                         *)
(***************************************************************************)
Active == IF profile = "solo" THEN {1} ELSE Conns

ControlFrames ==
    {Frame(max_message_size, "object", t, "absent", <<>>) :
        t \in {"ping", "clear_history"}}

DuoFrames ==
    ControlFrames
    \cup {Frame(max_message_size, "object", "none", "list",
                <<Entry(TRUE, "user", <<"b">>)>>),
          Frame(max_message_size, "notjson", "none", "absent", <<>>),
          Frame(max_message_size, "array", "none", "absent", <<>>)}

InFrames(c) ==
    IF profile = "solo" THEN Frames
    ELSE IF c = 1 THEN DuoFrames
    ELSE ControlFrames

\* How many lines of a stream are followed.
LineBound == IF profile = "solo" THEN MaxLines ELSE 1

\* The state of server.py's websocket_chat.
srvVars == <<max_retries, spc, salive, ninit, attempt, execs, abandoned,
             outcome, sout>>

NoOutcome == [kind |-> "none", of |-> 0, what |-> "none"]

\* server.py is a program of its own: it does not run in the environments
\* of ws_chat.
ServerOff ==
    /\ max_retries = 0
    /\ spc = "off"
    /\ salive = FALSE
    /\ ninit = 0
    /\ attempt = 0
    /\ execs = <<>>
    /\ abandoned = 0
    /\ outcome = NoOutcome
    /\ sout = <<>>

OneExchange == <<Turn("user", <<"a">>), Turn("assistant", <<"x">>)>>

Init ==
    /\ profile = "solo"
    /\ history_max_length \in 1..MaxHistCfg
    /\ conversation_sessions = TTLCache(MaxStoreSize)
    /\ alive = [c \in Conns |-> TRUE]
    /\ pc = [c \in Conns |-> "new"]
    /\ raw = [c \in Conns |-> NoFrame]
    /\ out = [c \in Conns |-> <<>>]
    /\ user_msg = [c \in Conns |-> <<>>]
    /\ history = [c \in Conns |-> <<>>]
    /\ q = [c \in Conns |-> <<>>]
    /\ calls = [c \in Conns |-> <<>>]
    /\ assistant_response = [c \in Conns |-> <<>>]
    /\ wpc = [c \in Conns |-> "idle"]
    /\ wmessages = [c \in Conns |-> <<>>]
    /\ sent = [c \in Conns |-> <<>>]
    /\ wtext = [c \in Conns |-> <<>>]
    /\ nlines = [c \in Conns |-> 0]
    /\ client_open = [c \in Conns |-> FALSE]
    /\ resp_open = [c \in Conns |-> FALSE]
    /\ ndone = [c \in Conns |-> 0]
    /\ cleared = [c \in Conns |-> FALSE]
    /\ in_part = EmptyPart
    /\ extracted = NotCalled
    /\ ServerOff

\* Connection 2 has been accepted and has completed one exchange.
InitDuo ==
    /\ profile = "duo"
    /\ history_max_length = 2
    /\ \E m \in 1..MaxStoreSize :
          conversation_sessions = SetItem(TTLCache(m), 2, OneExchange)
    /\ alive = [c \in Conns |-> TRUE]
    /\ pc = [c \in Conns |-> IF c = 2 THEN "awaiting" ELSE "new"]
    /\ raw = [c \in Conns |-> NoFrame]
    /\ out = [c \in Conns |-> <<>>]
    /\ user_msg = [c \in Conns |-> <<>>]
    /\ history = [c \in Conns |-> <<>>]
    /\ q = [c \in Conns |-> <<>>]
    /\ calls = [c \in Conns |-> <<>>]
    /\ assistant_response = [c \in Conns |-> <<>>]
    /\ wpc = [c \in Conns |-> "idle"]
    /\ wmessages = [c \in Conns |-> <<>>]
    /\ sent = [c \in Conns |-> <<>>]
    /\ wtext = [c \in Conns |-> <<>>]
    /\ nlines = [c \in Conns |-> 0]
    /\ client_open = [c \in Conns |-> FALSE]
    /\ resp_open = [c \in Conns |-> FALSE]
    /\ ndone = [c \in Conns |-> IF c = 2 THEN 1 ELSE 0]
    /\ cleared = [c \in Conns |-> FALSE]
    /\ in_part = EmptyPart
    /\ extracted = NotCalled
    /\ ServerOff

cfgVars == <<profile, history_max_length, in_part, extracted, srvVars>>
exchVars == <<user_msg, history, q, calls, assistant_response, wpc, wmessages,
              sent, wtext, nlines, client_open, resp_open>>
workerVars == <<wpc, wmessages, sent, wtext, nlines, client_open, resp_open>>
handlerVars == <<pc, raw, out, user_msg, history, ndone, cleared>>

(***************************************************************************)
(* ws_chat, the connection task.                                           *)
(***************************************************************************)
\* The handler leaves through "finally": the session is deleted if the
\* cache still shows it (ws.py:150-154).
Leave(c, S) ==
    /\ pc' = [pc EXCEPT ![c] = "closed"]
    /\ conversation_sessions' = Cleanup(S, c)

\* await websocket.send_text(frame), then "continue"; the write raises when
\* the client is gone, and the handler leaves.
Reply(c, frame, S) ==
    IF alive[c]
        THEN /\ out' = [out EXCEPT ![c] = Append(@, frame)]
             /\ pc' = [pc EXCEPT ![c] = "awaiting"]
             /\ conversation_sessions' = S
        ELSE /\ out' = out
             /\ Leave(c, S)

\* websocket.accept(); conversation_sessions[session_id] = []
Accept(c) ==
    /\ c \in Active
    /\ pc[c] = "new"
    /\ pc' = [pc EXCEPT ![c] = "awaiting"]
    /\ conversation_sessions' = SetItem(conversation_sessions, c, <<>>)
    /\ UNCHANGED <<cfgVars, alive, raw, out, exchVars, ndone, cleared>>

\* raw = await websocket.receive_text()
Receive(c) ==
    /\ pc[c] = "awaiting"
    /\ alive[c]
    /\ \E f \in InFrames(c) : raw' = [raw EXCEPT ![c] = f]
    /\ pc' = [pc EXCEPT ![c] = "received"]
    /\ out' = [out EXCEPT ![c] = <<>>]
    /\ UNCHANGED <<cfgVars, conversation_sessions, alive, exchVars, ndone,
                   cleared>>

\* receive_text raises WebSocketDisconnect
Disconnected(c) ==
    /\ pc[c] = "awaiting"
    /\ ~alive[c]
    /\ Leave(c, conversation_sessions)
    /\ UNCHANGED <<cfgVars, alive, raw, out, exchVars, ndone, cleared>>

\* ws.py:51-57, 59-64 and 80-82: one error frame, then continue
RejectFrame(c) ==
    /\ pc[c] = "received"
    /\ Branch(raw[c]) \in {"too_large", "bad_json", "missing"}
    /\ Reply(c, ErrorFrame(Branch(raw[c])), conversation_sessions)
    /\ raw' = [raw EXCEPT ![c] = NoFrame]
    /\ UNCHANGED <<cfgVars, alive, exchVars, ndone, cleared>>

\* ws.py:67 or 79: payload.get / m.get / the iteration raises; the outer
\* "except Exception" ends the handler
RaiseOnFrame(c) ==
    /\ pc[c] = "received"
    /\ Branch(raw[c]) = "raise"
    /\ Leave(c, conversation_sessions)
    /\ raw' = [raw EXCEPT ![c] = NoFrame]
    /\ UNCHANGED <<cfgVars, alive, out, exchVars, ndone, cleared>>

\* Variant of Ping: the heartbeat also rewrites the session entry.
PingRefreshes(c) ==
    /\ pc[c] = "received"
    /\ Branch(raw[c]) = "ping"
    /\ Reply(c, Chunk("pong", <<>>),
             SetItem(conversation_sessions, c,
                     Turns(conversation_sessions, c)))
    /\ raw' = [raw EXCEPT ![c] = NoFrame]
    /\ UNCHANGED <<cfgVars, alive, exchVars, ndone, cleared>>

\* ws.py:67-69
Ping(c) ==
    /\ pc[c] = "received"
    /\ Branch(raw[c]) = "ping"
    /\ Reply(c, Chunk("pong", <<>>), conversation_sessions)
    /\ raw' = [raw EXCEPT ![c] = NoFrame]
    /\ UNCHANGED <<cfgVars, alive, exchVars, ndone, cleared>>

\* Variant of ClearHistory: the frame is acknowledged, the session is kept.
ClearKeeps(c) ==
    /\ pc[c] = "received"
    /\ Branch(raw[c]) = "clear"
    /\ Reply(c, Chunk("history_cleared", <<>>), conversation_sessions)
    /\ raw' = [raw EXCEPT ![c] = NoFrame]
    /\ ndone' = [ndone EXCEPT ![c] = 0]
    /\ cleared' = [cleared EXCEPT ![c] = TRUE]
    /\ UNCHANGED <<cfgVars, alive, exchVars>>

\* ws.py:72-76
ClearHistory(c) ==
    /\ pc[c] = "received"
    /\ Branch(raw[c]) = "clear"
    /\ Reply(c, Chunk("history_cleared", <<>>),
             SetItem(conversation_sessions, c, <<>>))
    /\ raw' = [raw EXCEPT ![c] = NoFrame]
    /\ ndone' = [ndone EXCEPT ![c] = 0]
    /\ cleared' = [cleared EXCEPT ![c] = TRUE]
    /\ UNCHANGED <<cfgVars, alive, exchVars>>

\* ws.py:84-116: history = conversation_sessions[session_id] (KeyError ends
\* the handler), a fresh queue and response list, and the worker is started
\* on user_msg and history.copy()
StartExchange(c) ==
    /\ pc[c] = "received"
    /\ Branch(raw[c]) = "chat"
    /\ raw' = [raw EXCEPT ![c] = NoFrame]
    /\ LET S == conversation_sessions
       IN  IF GetOk(S, c)
               THEN /\ conversation_sessions' = Touch(S, c)
                    /\ pc' = [pc EXCEPT ![c] = "streaming"]
                    /\ user_msg' = [user_msg EXCEPT ![c] = Scan(raw[c]).content]
                    /\ history' = [history EXCEPT ![c] = S.data[c]]
                    /\ wmessages' = [wmessages EXCEPT ![c] = S.data[c]]
                    /\ wpc' = [wpc EXCEPT ![c] = "create"]
               ELSE /\ Leave(c, Touch(S, c))
                    /\ UNCHANGED <<user_msg, history, wmessages, wpc>>
    /\ UNCHANGED <<cfgVars, alive, out, q, calls, assistant_response, sent,
                   wtext, nlines, client_open, resp_open, ndone, cleared>>

\* Variant of ShouldCommit: any end of the exchange records it.
CommitOnAnyEnd(ch, parts) == parts # <<>>

\* ws.py:125: the exchange is recorded
ShouldCommit(ch, parts) == ch.type = "done" /\ parts # <<>>

\* Variant of Committed: the assistant turn holds the last fragment only.
CommittedLastFragment(h, u, parts) ==
    h \o <<Turn("user", u), Turn("assistant", parts[Len(parts)])>>

\* ws.py:126-127: the two appends to history
Committed(h, u, parts) ==
    h \o <<Turn("user", u), Turn("assistant", Join(parts))>>

\* ws.py:130-131
Trimmed(S, c, h) ==
    IF Len(h) > history_max_length
        THEN SetItem(S, c, LastN(h, history_max_length))
        ELSE S

\* ws.py:119-134 for one queued chunk: write it; on done or error update the
\* history and leave the loop for "await task".  A write that raises is
\* caught at ws.py:136, the error frame written there raises as well, and
\* the exception leaves the handler once the task has been awaited.
Consume(c) ==
    /\ pc[c] = "streaming"
    /\ q[c] # <<>>
    /\ LET ch == Head(q[c])
           h == Committed(history[c], user_msg[c], assistant_response[c])
           S == conversation_sessions
       IN  /\ q' = [q EXCEPT ![c] = Tail(@)]
           /\ IF ~alive[c]
                  THEN /\ pc' = [pc EXCEPT ![c] = "join_raise"]
                       /\ UNCHANGED <<out, history, conversation_sessions, ndone>>
              ELSE /\ out' = [out EXCEPT ![c] = Append(@, ch)]
                   /\ pc' = [pc EXCEPT ![c] =
                                 IF Terminal(ch) THEN "join" ELSE "streaming"]
                   /\ ndone' = [ndone EXCEPT ![c] =
                                 IF ch.type = "done" THEN Min(@ + 1, DoneCap)
                                 ELSE @]
                   /\ IF ShouldCommit(ch, assistant_response[c])
                          THEN /\ history' = [history EXCEPT ![c] = h]
                               /\ conversation_sessions' =
                                      Trimmed(Mutate(S, c, h), c, h)
                          ELSE UNCHANGED <<history, conversation_sessions>>
    /\ UNCHANGED <<cfgVars, alive, raw, user_msg, calls, assistant_response,
                   workerVars, cleared>>

\* Variant of AwaitTask: the handler goes on without awaiting the worker.
AwaitTaskNoWait(c) ==
    /\ pc[c] \in {"join", "join_raise"}
    /\ IF pc[c] = "join"
           THEN /\ pc' = [pc EXCEPT ![c] = "awaiting"]
                /\ UNCHANGED conversation_sessions
           ELSE Leave(c, conversation_sessions)
    /\ user_msg' = [user_msg EXCEPT ![c] = <<>>]
    /\ history' = [history EXCEPT ![c] = <<>>]
    /\ q' = [q EXCEPT ![c] = <<>>]
    /\ assistant_response' = [assistant_response EXCEPT ![c] = <<>>]
    /\ wpc' = [wpc EXCEPT ![c] = "idle"]
    /\ wmessages' = [wmessages EXCEPT ![c] = <<>>]
    /\ sent' = [sent EXCEPT ![c] = <<>>]
    /\ wtext' = [wtext EXCEPT ![c] = <<>>]
    /\ nlines' = [nlines EXCEPT ![c] = 0]
    /\ client_open' = [client_open EXCEPT ![c] = FALSE]
    /\ resp_open' = [resp_open EXCEPT ![c] = FALSE]
    /\ cleared' = [cleared EXCEPT ![c] = FALSE]
    /\ UNCHANGED <<cfgVars, alive, raw, out, calls, ndone>>

\* ws.py:142-144: "await task" returns once the worker has returned and the
\* callbacks it scheduled have run; then the next frame is awaited, or the
\* pending exception (or the one the worker failed with) ends the handler.
AwaitTask(c) ==
    /\ pc[c] \in {"join", "join_raise"}
    /\ wpc[c] \in {"finished", "failed"}
    /\ calls[c] = <<>>
    /\ IF pc[c] = "join" /\ wpc[c] = "finished"
           THEN /\ pc' = [pc EXCEPT ![c] = "awaiting"]
                /\ UNCHANGED conversation_sessions
           ELSE Leave(c, conversation_sessions)
    /\ user_msg' = [user_msg EXCEPT ![c] = <<>>]
    /\ history' = [history EXCEPT ![c] = <<>>]
    /\ q' = [q EXCEPT ![c] = <<>>]
    /\ assistant_response' = [assistant_response EXCEPT ![c] = <<>>]
    /\ wpc' = [wpc EXCEPT ![c] = "idle"]
    /\ wmessages' = [wmessages EXCEPT ![c] = <<>>]
    /\ sent' = [sent EXCEPT ![c] = <<>>]
    /\ wtext' = [wtext EXCEPT ![c] = <<>>]
    /\ nlines' = [nlines EXCEPT ![c] = 0]
    /\ client_open' = [client_open EXCEPT ![c] = FALSE]
    /\ resp_open' = [resp_open EXCEPT ![c] = FALSE]
    /\ cleared' = [cleared EXCEPT ![c] = FALSE]
    /\ UNCHANGED <<cfgVars, alive, raw, out, calls, ndone>>

\* Variant of RunPut: the chunk is put at the head of the queue.
RunPutFirst(c) ==
    /\ calls[c] # <<>>
    /\ q' = [q EXCEPT ![c] = <<Head(calls[c])>> \o @]
    /\ calls' = [calls EXCEPT ![c] = Tail(@)]
    /\ UNCHANGED <<cfgVars, conversation_sessions, alive, handlerVars,
                   assistant_response, workerVars>>

\* _put, run by the event loop: q.put_nowait(chunk)
RunPut(c) ==
    /\ calls[c] # <<>>
    /\ q' = [q EXCEPT ![c] = Append(@, Head(calls[c]))]
    /\ calls' = [calls EXCEPT ![c] = Tail(@)]
    /\ UNCHANGED <<cfgVars, conversation_sessions, alive, handlerVars,
                   assistant_response, workerVars>>

(***************************************************************************)
(* request_stream_sync, the worker thread.                                 *)
(***************************************************************************)
\* on_chunk(chunk): ws.py:94-106
OnChunk(c, ch) ==
    /\ assistant_response' = [assistant_response EXCEPT ![c] =
                                 IF ch.type = "delta" THEN Append(@, ch.text)
                                 ELSE @]
    /\ calls' = [calls EXCEPT ![c] = Append(@, ch)]

\* on_chunk(error); return: what is left is the "finally" of the worker
EmitError(c, what) ==
    /\ OnChunk(c, ErrorFrame(what))
    /\ wpc' = [wpc EXCEPT ![c] = "closing"]

\* on_chunk(done); return: what is left is the "finally" of the worker
EmitDone(c) ==
    /\ OnChunk(c, Chunk("done", <<>>))
    /\ wpc' = [wpc EXCEPT ![c] = "closing"]

\* Variant of WCreate: the request carries the new user turn only.
WCreateNoHistory(c) ==
    /\ wpc[c] = "create"
    /\ wmessages' = [wmessages EXCEPT ![c] = <<Turn("user", user_msg[c])>>]
    /\ \E ok \in BOOLEAN :
          IF ok THEN /\ wpc' = [wpc EXCEPT ![c] = "open"]
                     /\ client_open' = [client_open EXCEPT ![c] = TRUE]
                     /\ UNCHANGED <<assistant_response, calls>>
                ELSE /\ OnChunk(c, ErrorFrame("client"))
                     /\ wpc' = [wpc EXCEPT ![c] = "finished"]
                     /\ UNCHANGED client_open
    /\ UNCHANGED <<cfgVars, conversation_sessions, alive, handlerVars, q,
                   sent, wtext, nlines, resp_open>>

\* streamer.py:84-104: the messages array, then httpx.Client(...)
WCreate(c) ==
    /\ wpc[c] = "create"
    /\ wmessages' = [wmessages EXCEPT ![c] =
                        Append(@, Turn("user", user_msg[c]))]
    /\ \E ok \in BOOLEAN :
          IF ok THEN /\ wpc' = [wpc EXCEPT ![c] = "open"]
                     /\ client_open' = [client_open EXCEPT ![c] = TRUE]
                     /\ UNCHANGED <<assistant_response, calls>>
                ELSE /\ OnChunk(c, ErrorFrame("client"))
                     /\ wpc' = [wpc EXCEPT ![c] = "finished"]
                     /\ UNCHANGED client_open
    /\ UNCHANGED <<cfgVars, conversation_sessions, alive, handlerVars, q,
                   sent, wtext, nlines, resp_open>>

\* streamer.py:107-113: client.stream(...) raises, answers non-200, or 200.
\* ("raise" is also what follows when reading resp.text at line 110 raises,
\* as httpx does for a streamed response whose body was not read: the
\* response is closed and the "except" clause of line 160 is entered.)
WOpen(c) ==
    /\ wpc[c] = "open"
    /\ sent' = [sent EXCEPT ![c] = Append(@, Request(TRUE, wmessages[c]))]
    /\ \E res \in {"raise", "non200", "ok"} :
          CASE res = "raise" ->
                  /\ wpc' = [wpc EXCEPT ![c] = "fallback"]
                  /\ UNCHANGED <<assistant_response, calls, resp_open>>
            [] res = "non200" ->
                  /\ resp_open' = [resp_open EXCEPT ![c] = TRUE]
                  /\ EmitError(c, "http")
            [] OTHER ->
                  /\ resp_open' = [resp_open EXCEPT ![c] = TRUE]
                  /\ wpc' = [wpc EXCEPT ![c] = "lines"]
                  /\ UNCHANGED <<assistant_response, calls>>
    /\ UNCHANGED <<cfgVars, conversation_sessions, alive, handlerVars, q,
                   wmessages, wtext, nlines, client_open>>

\* streamer.py:115-155: one line of the stream is read and handled
WLine(c) ==
    /\ wpc[c] = "lines"
    /\ nlines[c] < LineBound
    /\ nlines' = [nlines EXCEPT ![c] = @ + 1]
    /\ \E line \in StreamLines :
          LET a == LineAct(line)
          IN  CASE a.kind = "skip" ->
                      UNCHANGED <<wpc, assistant_response, calls, resp_open>>
                [] a.kind = "done" -> EmitDone(c) /\ UNCHANGED resp_open
                [] a.kind = "delta" ->
                      /\ OnChunk(c, Chunk("delta", a.text))
                      /\ UNCHANGED <<wpc, resp_open>>
                [] a.kind = "delta_done" ->
                      /\ OnChunk(c, Chunk("delta", a.text))
                      /\ wpc' = [wpc EXCEPT ![c] = "tail"]
                      /\ UNCHANGED resp_open
                [] OTHER ->
                      /\ wpc' = [wpc EXCEPT ![c] = "fallback"]
                      /\ resp_open' = [resp_open EXCEPT ![c] = FALSE]
                      /\ UNCHANGED <<assistant_response, calls>>
    /\ UNCHANGED <<cfgVars, conversation_sessions, alive, handlerVars, q,
                   wmessages, sent, wtext, client_open>>

\* streamer.py:147-148: done after the delta of a payload with done = true
WTail(c) ==
    /\ wpc[c] = "tail"
    /\ EmitDone(c)
    /\ UNCHANGED <<cfgVars, conversation_sessions, alive, handlerVars, q,
                   wmessages, sent, wtext, nlines, client_open, resp_open>>

\* streamer.py:157-158: the stream ends without a terminating line
WEof(c) ==
    /\ wpc[c] = "lines"
    /\ EmitDone(c)
    /\ UNCHANGED <<cfgVars, conversation_sessions, alive, handlerVars, q,
                   wmessages, sent, wtext, nlines, client_open, resp_open>>

\* Variant of WBreak: the exception leaves the response open.
WBreakLeavesOpen(c) ==
    /\ wpc[c] = "lines"
    /\ wpc' = [wpc EXCEPT ![c] = "fallback"]
    /\ UNCHANGED <<cfgVars, conversation_sessions, alive, handlerVars, q,
                   calls, assistant_response, wmessages, sent, wtext, nlines,
                   client_open, resp_open>>

\* streamer.py:160: iter_lines raises (transport failure, timeout)
WBreak(c) ==
    /\ wpc[c] = "lines"
    /\ wpc' = [wpc EXCEPT ![c] = "fallback"]
    /\ resp_open' = [resp_open EXCEPT ![c] = FALSE]
    /\ UNCHANGED <<cfgVars, conversation_sessions, alive, handlerVars, q,
                   calls, assistant_response, wmessages, sent, wtext, nlines,
                   client_open>>

\* streamer.py:163-203: the non-streaming request and its text
WPost(c) ==
    /\ wpc[c] = "fallback"
    /\ sent' = [sent EXCEPT ![c] = Append(@, Request(FALSE, wmessages[c]))]
    /\ \/ EmitError(c, "connect") /\ UNCHANGED wtext
       \/ EmitError(c, "http") /\ UNCHANGED wtext
       \/ \E body \in FallbackBodies :
             IF FallbackRaises(body)
                 THEN /\ wpc' = [wpc EXCEPT ![c] = "raising"]
                      /\ UNCHANGED <<assistant_response, calls, wtext>>
             ELSE IF FallbackText(body) = <<>>
                 THEN EmitError(c, "empty") /\ UNCHANGED wtext
                 ELSE /\ wtext' = [wtext EXCEPT ![c] = FallbackText(body)]
                      /\ wpc' = [wpc EXCEPT ![c] = "chunks"]
                      /\ UNCHANGED <<assistant_response, calls>>
    /\ UNCHANGED <<cfgVars, conversation_sessions, alive, handlerVars, q,
                   wmessages, nlines, client_open, resp_open>>

\* streamer.py:206-209: the text goes out in chunks, then done
WChunk(c) ==
    /\ wpc[c] = "chunks"
    /\ IF wtext[c] = <<>>
           THEN EmitDone(c) /\ UNCHANGED wtext
           ELSE /\ OnChunk(c, Chunk("delta", FirstChunk(wtext[c])))
                /\ wtext' = [wtext EXCEPT ![c] = RestChunks(@)]
                /\ UNCHANGED wpc
    /\ UNCHANGED <<cfgVars, conversation_sessions, alive, handlerVars, q,
                   wmessages, sent, nlines, client_open, resp_open>>

\* "return" leaves the "with" block, which closes the streaming response
\* when there is one (streamer.py:107), then "finally: client.close()"
\* (streamer.py:210-211), and the worker returns, or the exception that is
\* on its way out leaves the worker: the task has failed
WReturn(c) ==
    /\ wpc[c] \in {"closing", "raising"}
    /\ wpc' = [wpc EXCEPT ![c] =
                  IF wpc[c] = "closing" THEN "finished" ELSE "failed"]
    /\ resp_open' = [resp_open EXCEPT ![c] = FALSE]
    /\ client_open' = [client_open EXCEPT ![c] = FALSE]
    /\ UNCHANGED <<cfgVars, conversation_sessions, alive, handlerVars, q,
                   calls, assistant_response, wmessages, sent, wtext, nlines>>

(***************************************************************************)
(* The environment.                                                        *)
(***************************************************************************)
\* The client closes its end.
ClientGone(c) ==
    /\ pc[c] \notin {"new", "closed"}
    /\ alive[c]
    /\ alive' = [alive EXCEPT ![c] = FALSE]
    /\ UNCHANGED <<cfgVars, conversation_sessions, handlerVars, q, calls,
                   assistant_response, workerVars>>

\* Time passes: the entry written longest ago outlives the ttl.
TimePasses ==
    /\ conversation_sessions.stale < Len(conversation_sessions.links)
    /\ conversation_sessions' =
           [conversation_sessions EXCEPT !.stale = @ + 1]
    /\ UNCHANGED <<cfgVars, alive, handlerVars, q, calls, assistant_response,
                   workerVars>>

Next ==
    \/ \E c \in Conns : Accept(c)
    \/ \E c \in Conns : Receive(c)
    \/ \E c \in Conns : Disconnected(c)
    \/ \E c \in Conns : RejectFrame(c)
    \/ \E c \in Conns : RaiseOnFrame(c)
    \/ \E c \in Conns : Ping(c)
    \/ \E c \in Conns : ClearHistory(c)
    \/ \E c \in Conns : StartExchange(c)
    \/ \E c \in Conns : Consume(c)
    \/ \E c \in Conns : AwaitTask(c)
    \/ \E c \in Conns : RunPut(c)
    \/ \E c \in Conns : WCreate(c)
    \/ \E c \in Conns : WOpen(c)
    \/ \E c \in Conns : WLine(c)
    \/ \E c \in Conns : WTail(c)
    \/ \E c \in Conns : WEof(c)
    \/ \E c \in Conns : WBreak(c)
    \/ \E c \in Conns : WPost(c)
    \/ \E c \in Conns : WChunk(c)
    \/ \E c \in Conns : WReturn(c)
    \/ \E c \in Conns : ClientGone(c)
    \/ TimePasses

Spec == Init /\ [][Next]_vars

SpecDuo == InitDuo /\ [][Next]_vars

\* The steps of the worker thread of connection c.
Worker(c) ==
    \/ WCreate(c) \/ WOpen(c) \/ WLine(c) \/ WTail(c) \/ WEof(c)
    \/ WBreak(c) \/ WPost(c) \/ WChunk(c) \/ WReturn(c)

\* The thread pool lets a worker thread run, the event loop runs the
\* callbacks scheduled on it and resumes the connection task when what it
\* awaits (q.get(), the task) is ready.  A stream is finite.
Fairness ==
    \A c \in Conns :
        /\ WF_vars(Worker(c))
        /\ WF_vars(RunPut(c))
        /\ WF_vars(Consume(c))
        /\ WF_vars(AwaitTask(c))

SpecFair == Init /\ [][Next]_vars /\ Fairness

(***************************************************************************)
(* _extract_text_from_part on its own: the payload is any of Parts, and    *)
(* the one step is the call.                                               *)
(***************************************************************************)
InitExtract ==
    /\ profile = "extract"
    /\ history_max_length = 2
    /\ in_part \in Parts
    /\ extracted = NotCalled
    /\ conversation_sessions = TTLCache(MaxStoreSize)
    /\ alive = [c \in Conns |-> TRUE]
    /\ pc = [c \in Conns |-> "new"]
    /\ raw = [c \in Conns |-> NoFrame]
    /\ out = [c \in Conns |-> <<>>]
    /\ user_msg = [c \in Conns |-> <<>>]
    /\ history = [c \in Conns |-> <<>>]
    /\ q = [c \in Conns |-> <<>>]
    /\ calls = [c \in Conns |-> <<>>]
    /\ assistant_response = [c \in Conns |-> <<>>]
    /\ wpc = [c \in Conns |-> "idle"]
    /\ wmessages = [c \in Conns |-> <<>>]
    /\ sent = [c \in Conns |-> <<>>]
    /\ wtext = [c \in Conns |-> <<>>]
    /\ nlines = [c \in Conns |-> 0]
    /\ client_open = [c \in Conns |-> FALSE]
    /\ resp_open = [c \in Conns |-> FALSE]
    /\ ndone = [c \in Conns |-> 0]
    /\ cleared = [c \in Conns |-> FALSE]
    /\ ServerOff

\* text = _extract_text_from_part(part)
Extract ==
    /\ profile = "extract"
    /\ ~extracted.called
    /\ extracted' = Returned(ExtractTextFromPart(in_part))
    /\ UNCHANGED <<profile, history_max_length, in_part, conversation_sessions,
                   alive, handlerVars, q, calls, assistant_response,
                   workerVars, srvVars>>

NextExtract == Extract

SpecExtract == InitExtract /\ [][NextExtract]_vars

(***************************************************************************)
(* server.py: websocket_chat and _call_sync_with_timeout_and_retries, for  *)
(* one connection.  A frame written is recorded by its type.  fn is the    *)
(* blocking call ollama_client.chat(...); an executor call of fn is        *)
(*   "pending"    submitted to the thread pool, not started yet            *)
(*   "running"    fn is executing in a pool thread                         *)
(*   "ok", "fail" fn has returned, or has raised                           *)
(*   "cancelled"  the timeout came before a thread took the call up        *)
(*   "timedout"   the timeout came while fn was executing: the awaited     *)
(*                future is cancelled, the thread goes on (abandoned)      *)
(* The i-th call returns the value i or raises the failure i.              *)
(***************************************************************************)
wsVars == <<profile, history_max_length, in_part, extracted,
            conversation_sessions, alive, handlerVars, q, calls,
            assistant_response, workerVars>>

InitServer ==
    /\ profile = "server"
    /\ history_max_length = 2
    /\ in_part = EmptyPart
    /\ extracted = NotCalled
    /\ conversation_sessions = TTLCache(MaxStoreSize)
    /\ alive = [c \in Conns |-> TRUE]
    /\ pc = [c \in Conns |-> "new"]
    /\ raw = [c \in Conns |-> NoFrame]
    /\ out = [c \in Conns |-> <<>>]
    /\ user_msg = [c \in Conns |-> <<>>]
    /\ history = [c \in Conns |-> <<>>]
    /\ q = [c \in Conns |-> <<>>]
    /\ calls = [c \in Conns |-> <<>>]
    /\ assistant_response = [c \in Conns |-> <<>>]
    /\ wpc = [c \in Conns |-> "idle"]
    /\ wmessages = [c \in Conns |-> <<>>]
    /\ sent = [c \in Conns |-> <<>>]
    /\ wtext = [c \in Conns |-> <<>>]
    /\ nlines = [c \in Conns |-> 0]
    /\ client_open = [c \in Conns |-> FALSE]
    /\ resp_open = [c \in Conns |-> FALSE]
    /\ ndone = [c \in Conns |-> 0]
    /\ cleared = [c \in Conns |-> FALSE]
    /\ max_retries \in 0..MaxRetries
    /\ spc = "new"
    /\ salive = TRUE
    /\ ninit = 0
    /\ attempt = 0
    /\ execs = <<>>
    /\ abandoned = 0
    /\ outcome = NoOutcome
    /\ sout = <<>>

\* await ws.send_text(...) inside "try ... except Exception: pass", or inside
\* a helper that catches what the write raises: the frame is written when
\* the client is there, and nothing happens when it is gone.
SrvWrite(frames) == sout' = IF salive THEN sout \o frames ELSE sout

\* server.py:299-300
SrvAccept ==
    /\ spc = "new"
    /\ spc' = "receive"
    /\ UNCHANGED <<wsVars, max_retries, salive, ninit, attempt, execs,
                   abandoned, outcome, sout>>

\* server.py:305-327: one frame is read: "close", text that is no JSON, an
\* init that is refused, or an init that is taken up
SrvReceive ==
    /\ spc = "receive"
    /\ salive
    /\ \E kind \in {"close", "badjson", "badinit", "init"} :
          CASE kind = "close" ->
                  /\ spc' = "closed"
                  /\ sout' = <<>>
                  /\ UNCHANGED <<ninit, attempt, execs, outcome>>
            [] kind \in {"badjson", "badinit"} ->
                  /\ spc' = "receive"
                  /\ sout' = <<"error">>
                  /\ UNCHANGED <<ninit, attempt, execs, outcome>>
            [] OTHER ->
                  /\ ninit < MaxInits
                  /\ ninit' = ninit + 1
                  /\ spc' = "try_stream"
                  /\ sout' = <<>>
                  /\ attempt' = 0
                  /\ execs' = <<>>
                  /\ outcome' = NoOutcome
    /\ UNCHANGED <<wsVars, max_retries, salive, abandoned>>

\* receive_text raises WebSocketDisconnect (server.py:369-370)
SrvDisconnected ==
    /\ spc = "receive"
    /\ ~salive
    /\ spc' = "closed"
    /\ UNCHANGED <<wsVars, max_retries, salive, ninit, attempt, execs,
                   abandoned, outcome, sout>>

\* server.py:330-353: chat_stream, then chat(stream=True), give an iterator
\* that is streamed from; when neither does, the single call is made
SrvTryStream ==
    /\ spc = "try_stream"
    /\ \E iter \in BOOLEAN :
          spc' = IF iter THEN "streaming" ELSE "call"
    /\ UNCHANGED <<wsVars, max_retries, salive, ninit, attempt, execs,
                   abandoned, outcome, sout>>

\* _stream_from_sync_iter (server.py:174-249), one item of the iterator:
\* nothing to send yet, a delta, the final text or the end of the iterator
\* (done), or an exception (error); a write that raises ends it as well
SrvStreamItem ==
    /\ spc = "streaming"
    /\ \E item \in {"buffered", "flush", "final", "raise"} :
          CASE item = "buffered" -> UNCHANGED <<spc, sout>>
            [] item = "flush" ->
                  /\ Len(sout) < MaxLines
                  /\ SrvWrite(<<"delta">>)
                  /\ spc' = IF salive THEN "streaming" ELSE "receive"
            [] item = "final" ->
                  /\ SrvWrite(<<"done">>)
                  /\ spc' = "receive"
            [] OTHER ->
                  /\ SrvWrite(<<"error">>)
                  /\ spc' = "receive"
    /\ UNCHANGED <<wsVars, max_retries, salive, ninit, attempt, execs,
                   abandoned, outcome>>

\* Variant of GiveUp: one more attempt is made before giving up.
GiveUpLate(n) == n > max_retries + 1

\* server.py:282 and 288: "if attempt > max_retries: raise"
GiveUp(n) == n > max_retries

\* server.py:280-291: an attempt has failed (what: "timeout" or "fail");
\* the failure is raised to websocket_chat, which answers with an error
\* frame (server.py:364-368), or the loop sleeps before the next attempt
Failed(what) ==
    /\ attempt' = attempt + 1
    /\ IF GiveUp(attempt + 1)
           THEN /\ outcome' = [kind |-> "raised", of |-> Len(execs),
                               what |-> what]
                /\ SrvWrite(<<"error">>)
                /\ spc' = "receive"
           ELSE /\ spc' = "sleep"
                /\ UNCHANGED <<outcome, sout>>

\* server.py:278: fut = loop.run_in_executor(None, fn)
SrvCall ==
    /\ spc = "call"
    /\ execs' = Append(execs, "pending")
    /\ spc' = "wait"
    /\ UNCHANGED <<wsVars, max_retries, salive, ninit, attempt, abandoned,
                   outcome, sout>>

\* A thread of the pool takes the call up: fn is invoked.
ExecStart ==
    /\ \E i \in 1..Len(execs) :
          /\ execs[i] = "pending"
          /\ execs' = [execs EXCEPT ![i] = "running"]
    /\ UNCHANGED <<wsVars, max_retries, spc, salive, ninit, attempt,
                   abandoned, outcome, sout>>

\* fn returns or raises.
ExecEnd ==
    /\ \E i \in 1..Len(execs) :
          /\ execs[i] = "running"
          /\ \E r \in {"ok", "fail"} : execs' = [execs EXCEPT ![i] = r]
    /\ UNCHANGED <<wsVars, max_retries, spc, salive, ninit, attempt,
                   abandoned, outcome, sout>>

\* A call of fn that was abandoned at its timeout comes to its end.
AbandonedEnd ==
    /\ abandoned > 0
    /\ abandoned' = abandoned - 1
    /\ UNCHANGED <<wsVars, max_retries, spc, salive, ninit, attempt, execs,
                   outcome, sout>>

\* server.py:279, 286: wait_for returns the result of fn, or raises what fn
\* raised
SrvWaitDone ==
    /\ spc = "wait"
    /\ execs[Len(execs)] \in {"ok", "fail"}
    /\ IF execs[Len(execs)] = "ok"
           THEN /\ outcome' = [kind |-> "returned", of |-> Len(execs),
                               what |-> "none"]
                /\ spc' = "send"
                /\ UNCHANGED <<attempt, sout>>
           ELSE Failed("fail")
    /\ UNCHANGED <<wsVars, max_retries, salive, ninit, execs, abandoned>>

\* server.py:279-280: the timeout comes first: wait_for cancels the future
\* and raises TimeoutError.  A call not yet started is cancelled; a call
\* that is executing cannot be interrupted and goes on in its thread.
SrvTimeout ==
    /\ spc = "wait"
    /\ execs[Len(execs)] \in {"pending", "running"}
    /\ execs' = [execs EXCEPT ![Len(execs)] =
                    IF @ = "pending" THEN "cancelled" ELSE "timedout"]
    /\ abandoned' = abandoned
                        + (IF execs[Len(execs)] = "running" THEN 1 ELSE 0)
    /\ Failed("timeout")
    /\ UNCHANGED <<wsVars, max_retries, salive, ninit>>

\* server.py:284, 291: await asyncio.sleep(0.5 * attempt)
SrvSleepDone ==
    /\ spc = "sleep"
    /\ spc' = "call"
    /\ UNCHANGED <<wsVars, max_retries, salive, ninit, attempt, execs,
                   abandoned, outcome, sout>>

\* server.py:360 and 251-268: the response goes out as delta frames (none
\* for an empty text) and done
SrvSend ==
    /\ spc = "send"
    /\ \E deltas \in {<<>>, <<"delta">>} : SrvWrite(deltas \o <<"done">>)
    /\ spc' = "receive"
    /\ UNCHANGED <<wsVars, max_retries, salive, ninit, attempt, execs,
                   abandoned, outcome>>

\* The client closes its end.
SrvClientGone ==
    /\ spc \notin {"new", "closed"}
    /\ salive
    /\ salive' = FALSE
    /\ UNCHANGED <<wsVars, max_retries, spc, ninit, attempt, execs,
                   abandoned, outcome, sout>>

NextServer ==
    \/ SrvAccept
    \/ SrvReceive
    \/ SrvDisconnected
    \/ SrvTryStream
    \/ SrvStreamItem
    \/ SrvCall
    \/ ExecStart
    \/ ExecEnd
    \/ AbandonedEnd
    \/ SrvWaitDone
    \/ SrvTimeout
    \/ SrvSleepDone
    \/ SrvSend
    \/ SrvClientGone

SpecServer == InitServer /\ [][NextServer]_vars

(***************************************************************************)
(* Steps of the handler, for the properties below.                         *)
(***************************************************************************)
\* Connection c's handler acts on the frame it holds.
DispatchStep(c) == pc[c] = "received" /\ pc'[c] # "received"

\* Connection c's handler takes a chunk from its queue.
ConsumeStep(c) == pc[c] = "streaming" /\ q[c] # <<>> /\ q'[c] = Tail(q[c])

Last(o) == o[Len(o)]

DeltasOnly(o) == \A i \in 1..Len(o) : o[i].type = "delta"

EndsExchange(f) == f.type \in {"done", "error"}

\* zero or more delta frames, then exactly one done or error frame
ExchangeFrames(o) ==
    /\ o # <<>>
    /\ EndsExchange(Last(o))
    /\ DeltasOnly(SubSeq(o, 1, Len(o) - 1))

\* The text of the delta frames of o, joined.
RECURSIVE DeltaText(_)
DeltaText(o) ==
    IF o = <<>> THEN <<>>
    ELSE (IF Head(o).type = "delta" THEN Head(o).text ELSE <<>>)
         \o DeltaText(Tail(o))

\* user/assistant pairs, a user turn first
Paired(turns) ==
    /\ Len(turns) % 2 = 0
    /\ \A i \in 1..Len(turns) :
          turns[i].role = (IF i % 2 = 1 THEN "user" ELSE "assistant")

C2_DoneAppendsPair ==
    [][\A c \in Conns :
          (ConsumeStep(c) /\ alive[c] /\ Head(q[c]).type = "done")
          => Turns(conversation_sessions', c) =
                 LastN(Turns(conversation_sessions, c)
                       \o <<Turn("user", user_msg[c]),
                            Turn("assistant", DeltaText(out'[c]))>>,
                       history_max_length)]_vars

(***************************************************************************)
(* C3.  An exchange that ends with an error frame, also after delta        *)
(* frames, leaves the session store as it was: no step of the handler that *)
(* takes a delta or an error from the queue changes the store, the session *)
(* still holds the list fetched when the exchange started, exactly one     *)
(* error frame is written, after deltas only, and after "await task" the   *)
(* handler awaits the next frame with nothing left of the exchange.        *)
(***************************************************************************)
C3_ErrorLeavesSession ==
    [][\A c \in Conns :
          /\ (ConsumeStep(c) /\ Head(q[c]).type # "done")
             => /\ conversation_sessions' = conversation_sessions
                /\ history'[c] = history[c]
                /\ Present(conversation_sessions, c)
                   => conversation_sessions.data[c] = history[c]
          /\ (ConsumeStep(c) /\ alive[c] /\ Head(q[c]).type = "error")
             => /\ DeltasOnly(out[c])
                /\ out'[c] = Append(out[c], Head(q[c]))
                /\ pc'[c] = "join"
          /\ (pc[c] = "join" /\ pc'[c] # "join")
             => /\ pc'[c] = "awaiting"
                /\ conversation_sessions' = conversation_sessions
                /\ out'[c] = out[c]
                /\ wpc'[c] = "idle" /\ q'[c] = <<>> /\ calls'[c] = <<>>
                /\ assistant_response'[c] = <<>>]_vars

\* Back in the receive loop after deltas and an error, with earlier turns
\* still in the session.
C3_Witness ==
    /\ pc[1] = "awaiting"
    /\ Len(out[1]) >= 2
    /\ Last(out[1]).type = "error"
    /\ out[1][1].type = "delta"
    /\ Turns(conversation_sessions, 1) # <<>>

(***************************************************************************)
(* C4.  While the handler awaits a frame the session never holds more than *)
(* history_max_length turns, and once more than history_max_length / 2     *)
(* exchanges have ended with done it holds exactly history_max_length      *)
(* turns.                                                                  *)
(***************************************************************************)
C4_HistoryBound ==
    \A c \in Conns :
        (pc[c] = "awaiting" /\ Contains(conversation_sessions, c))
        => /\ Len(conversation_sessions.data[c]) <= history_max_length
           /\ 2 * ndone[c] > history_max_length
              => Len(conversation_sessions.data[c]) = history_max_length

(***************************************************************************)
(* C5.  In every state, for every history_max_length, every session is a   *)
(* list of user/assistant pairs: even length, a user turn first.           *)
(***************************************************************************)
C5_PairsPreserved ==
    \A c \in Conns :
        Present(conversation_sessions, c)
        => Paired(conversation_sessions.data[c])

(***************************************************************************)
(* C6.  A frame of exactly max_message_size is handled as the same frame   *)
(* one unit smaller is, and is never answered "too large".  A frame one    *)
(* unit larger changes neither the store nor the worker, whatever it       *)
(* holds; the only frame written is one error frame and the handler awaits *)
(* the next frame (or, the client being gone, the write raises).           *)
(***************************************************************************)
C6_SizeBoundary ==
    [][\A c \in Conns :
          /\ (DispatchStep(c) /\ raw[c].size = max_message_size)
             => /\ Branch(raw[c])
                     = Branch([raw[c] EXCEPT !.size = max_message_size - 1])
                /\ ErrorFrame("too_large") \notin Range(out'[c])
          /\ (DispatchStep(c) /\ raw[c].size = max_message_size + 1)
             => /\ wpc'[c] = "idle"
                /\ IF alive[c]
                       THEN /\ out'[c] = <<ErrorFrame("too_large")>>
                            /\ pc'[c] = "awaiting"
                            /\ conversation_sessions' = conversation_sessions
                       ELSE /\ out'[c] = <<>>
                            /\ pc'[c] = "closed"]_vars

\* An oversized frame was answered while the session holds turns.
C6_Witness ==
    /\ pc[1] = "awaiting"
    /\ out[1] = <<ErrorFrame("too_large")>>
    /\ Turns(conversation_sessions, 1) # <<>>

(***************************************************************************)
(* C7.  A frame that does not decode to a JSON object (no JSON at all, or  *)
(* an array, string, number or null) is answered with exactly one error    *)
(* frame, the store is unchanged and the handler awaits the next frame.    *)
(***************************************************************************)
C7_UndecodableRejected ==
    [][\A c \in Conns :
          (DispatchStep(c) /\ alive[c]
           /\ raw[c].size <= max_message_size
           /\ raw[c].kind # "object")
          => /\ Len(out'[c]) = 1
             /\ out'[c][1].type = "error"
             /\ conversation_sessions' = conversation_sessions
             /\ pc'[c] = "awaiting"]_vars

(***************************************************************************)
(* C8.  A chat request without a resolvable user message (messages absent, *)
(* empty, no list, holding an item that is no object, or holding no user   *)
(* entry with content) is answered with exactly one error frame, starts no *)
(* worker, leaves the store unchanged and the handler awaiting.            *)
(***************************************************************************)
Resolvable(r) ==
    /\ r.mkind = "list"
    /\ \A i \in 1..Len(r.messages) : r.messages[i].obj
    /\ \E i \in 1..Len(r.messages) :
          r.messages[i].role = "user" /\ r.messages[i].content # <<>>

C8_MissingUserRejected ==
    [][\A c \in Conns :
          (DispatchStep(c) /\ alive[c]
           /\ raw[c].size <= max_message_size
           /\ raw[c].kind = "object" /\ raw[c].type = "none"
           /\ ~Resolvable(raw[c]))
          => /\ Len(out'[c]) = 1
             /\ out'[c][1].type = "error"
             /\ wpc'[c] = "idle"
             /\ conversation_sessions' = conversation_sessions
             /\ pc'[c] = "awaiting"]_vars

(***************************************************************************)
(* C9.  The handler leaves its receive loop only because the client is     *)
(* gone (receive_text or a write raised): never on a frame, an upstream    *)
(* answer or the state of the session store.                               *)
(***************************************************************************)
C9_ClosesOnlyOnDisconnect ==
    [][\A c \in Conns :
          (pc[c] # "closed" /\ pc'[c] = "closed") => ~alive[c]]_vars

(***************************************************************************)
(* C10.  Each ping received is answered with exactly one pong and nothing  *)
(* else; the session store (this connection's entry and every other) is    *)
(* unchanged and the handler awaits the next frame.                        *)
(***************************************************************************)
C10_PingPong ==
    [][\A c \in Conns :
          (DispatchStep(c) /\ alive[c]
           /\ raw[c].size <= max_message_size
           /\ raw[c].kind = "object" /\ raw[c].type = "ping")
          => /\ out'[c] = <<Chunk("pong", <<>>)>>
             /\ conversation_sessions' = conversation_sessions
             /\ pc'[c] = "awaiting"
             /\ UNCHANGED <<exchVars, ndone>>]_vars

\* Connection 1 was answered pong while connection 2's session holds turns.
C10_Witness ==
    /\ pc[1] = "awaiting"
    /\ out[1] = <<Chunk("pong", <<>>)>>
    /\ Turns(conversation_sessions, 2) # <<>>

(***************************************************************************)
(* C11.  Handling clear_history leaves the connection's session present    *)
(* with zero turns, whatever it held and also when it was empty, expired   *)
(* or evicted; exactly one history_cleared frame is written and no worker  *)
(* is started.  The next chat exchange of the connection fetches an empty  *)
(* history, and the messages its worker sends upstream are the new user    *)
(* message alone.                                                          *)
(***************************************************************************)
C11_ClearResets ==
    [][\A c \in Conns :
          /\ (DispatchStep(c) /\ alive[c] /\ Branch(raw[c]) = "clear")
             => /\ Contains(conversation_sessions', c)
                /\ conversation_sessions'.data[c] = <<>>
                /\ out'[c] = <<Chunk("history_cleared", <<>>)>>
                /\ pc'[c] = "awaiting"
                /\ wpc'[c] = "idle"
                /\ cleared'[c]
          /\ (cleared'[c] /\ pc'[c] \in {"streaming", "join", "join_raise"})
             => /\ wmessages'[c] \in {<<>>, <<Turn("user", user_msg'[c])>>}
                /\ wpc'[c] # "create"
                   => wmessages'[c] = <<Turn("user", user_msg'[c])>>
                /\ history'[c] \in {<<>>, Committed(<<>>, user_msg'[c],
                                                    assistant_response'[c])}]_vars

\* The session was cleared and the worker of the next exchange has built
\* its request: the new user message alone.
C11_Witness ==
    /\ cleared[1]
    /\ ndone[1] = 0
    /\ wpc[1] = "open"
    /\ wmessages[1] = <<Turn("user", <<"b">>)>>
    /\ history[1] = <<>>

(***************************************************************************)
(* C12.  Once the handler is on its way out of an exchange (a write has    *)
(* raised because the client is gone) the upstream call is aborted: the    *)
(* worker reads no further line, makes no further request and hands over   *)
(* no further chunk; no turn of the interrupted exchange is appended to    *)
(* any session, and the handler's own session is only ever removed.        *)
(***************************************************************************)
C12_AbortsUpstream ==
    [][\A c \in Conns :
          (pc[c] = "join_raise" /\ pc'[c] = "join_raise")
          => /\ nlines'[c] = nlines[c]
             /\ wtext'[c] = wtext[c]
             /\ Len(calls'[c]) <= Len(calls[c])
             /\ assistant_response'[c] = assistant_response[c]
             /\ wpc'[c] \in {wpc[c], "finished"}
             /\ \A d \in Conns :
                   Present(conversation_sessions', d)
                   => /\ Present(conversation_sessions, d)
                      /\ conversation_sessions'.data[d]
                             = conversation_sessions.data[d]]_vars

(***************************************************************************)
(* C13.  What _extract_text_from_part returns follows the precedence of    *)
(* rules 1, 2 and 5: a non-empty string message.content; otherwise the     *)
(* first of response, response_text, text, output, content that holds a    *)
(* non-empty string, whatever the choices hold; and None for a payload     *)
(* with no such field and no list of choices.                              *)
(***************************************************************************)
HasMessageText(p) == p.message.t = "dict" /\ IsText(p.message.content)

FlatHits(p) == {i \in 1..Len(FlatKeys) : IsText(Flat(p, FlatKeys[i]))}

FirstHit(p) == CHOOSE i \in FlatHits(p) : \A j \in FlatHits(p) : i <= j

C13_ExtractPrecedence ==
    extracted.called
    => /\ HasMessageText(in_part) => extracted.value = in_part.message.content
       /\ (~HasMessageText(in_part) /\ FlatHits(in_part) # {})
          => extracted.value = Flat(in_part, FlatKeys[FirstHit(in_part)])
       /\ (~HasMessageText(in_part) /\ FlatHits(in_part) = {}
           /\ in_part.choices.t # "list")
          => extracted.value = Absent

\* choices[0].delta.content and a top-level response: the response is
\* returned.
C13_Witness ==
    /\ extracted = Returned(Str(<<"r">>))
    /\ ~HasMessageText(in_part)
    /\ in_part.choices.t = "list"
    /\ Len(in_part.choices.items) >= 1
    /\ in_part.choices.items[1].delta.content = Str(<<"b">>)

(***************************************************************************)
(* C15.  With no message.content and no flat field, the delta texts        *)
(* (delta.content, else delta.text) of all choices are searched first, the *)
(* first choice that has one winning; the text of a choice is returned     *)
(* only when no choice has a delta text.                                   *)
(***************************************************************************)
DeltaOf(c) ==
    IF c.isdict /\ c.delta.t = "dict"
        THEN IF IsText(c.delta.content) THEN c.delta.content
             ELSE IF IsText(c.delta.text) THEN c.delta.text
             ELSE Absent
        ELSE Absent

TextOf(c) == IF c.isdict /\ IsText(c.text) THEN c.text ELSE Absent

Least(S) == CHOOSE i \in S : \A j \in S : i <= j

C15_DeltaBeforeText ==
    (/\ extracted.called
     /\ ~HasMessageText(in_part)
     /\ FlatHits(in_part) = {}
     /\ in_part.choices.t = "list")
    => LET items == in_part.choices.items
           withDelta == {i \in 1..Len(items) : DeltaOf(items[i]) # Absent}
           withText == {i \in 1..Len(items) : TextOf(items[i]) # Absent}
       IN  extracted.value =
               IF withDelta # {} THEN DeltaOf(items[Least(withDelta)])
               ELSE IF withText # {} THEN TextOf(items[Least(withText)])
               ELSE Absent

(***************************************************************************)
(* C14.  When a chat request starts an exchange, the live user message     *)
(* (sent upstream, later stored) is the content of the last entry with     *)
(* role user in the request's messages.                                    *)
(***************************************************************************)
Greatest(S) == CHOOSE i \in S : \A j \in S : j <= i

UserEntries(ms) == {i \in 1..Len(ms) : ms[i].obj /\ ms[i].role = "user"}

C14_LastUserEntry ==
    [][\A c \in Conns :
          (DispatchStep(c) /\ pc'[c] = "streaming")
          => /\ UserEntries(raw[c].messages) # {}
             /\ user_msg'[c] =
                    raw[c].messages[Greatest(UserEntries(raw[c].messages))]
                        .content]_vars

(***************************************************************************)
(* C16.  Every request the worker issues, the streaming one and the        *)
(* fallback one alike, carries as messages the turns the session held when *)
(* the exchange started followed by one user turn with the live message.   *)
(* Fetching the history, building the request and issuing it change no     *)
(* session, and the fetched history stays as it is while the worker runs.  *)
(***************************************************************************)
C16_UpstreamMessages ==
    [][\A c \in Conns :
          /\ (DispatchStep(c) /\ pc'[c] = "streaming")
             => /\ history'[c] = Turns(conversation_sessions, c)
                /\ Turns(conversation_sessions', c)
                       = Turns(conversation_sessions, c)
          /\ (wpc[c] \in {"create", "open", "lines", "tail", "fallback",
                          "chunks"})
             => history'[c] = history[c]
          /\ (wpc[c] = "create" /\ wpc'[c] # "create")
             => conversation_sessions' = conversation_sessions
          /\ (sent'[c] # sent[c] /\ sent'[c] # <<>>)
             => /\ Last(sent'[c]).messages
                       = history[c] \o <<Turn("user", user_msg[c])>>
                /\ conversation_sessions' = conversation_sessions]_vars

\* Both requests of an exchange were issued on a session holding an earlier
\* exchange.
C16_Witness ==
    /\ Len(sent[1]) = 2
    /\ sent[1][1].stream /\ ~sent[1][2].stream
    /\ sent[1][2].messages = sent[1][1].messages
    /\ Len(sent[1][1].messages) = 3
    /\ sent[1][1].messages[3] = Turn("user", <<"b">>)

(***************************************************************************)
(* C17.  One exchange at a time per connection: a frame is read only while *)
(* no worker of the connection exists and nothing of an exchange is        *)
(* pending; the handler returns to reading only from "await task", after   *)
(* the terminal frame was written, the worker has returned and its         *)
(* callbacks have run; and a worker is started only by the handler acting  *)
(* on a frame, when none is running.                                       *)
(***************************************************************************)
C17_OneExchange ==
    [][\A c \in Conns :
          /\ (pc[c] # "received" /\ pc'[c] = "received")
             => /\ pc[c] = "awaiting"
                /\ wpc[c] = "idle" /\ q[c] = <<>> /\ calls[c] = <<>>
                /\ sent[c] = <<>>
          /\ (pc[c] \in {"streaming", "join"} /\ pc'[c] = "awaiting")
             => /\ pc[c] = "join"
                /\ ExchangeFrames(out[c])
                /\ wpc[c] = "finished" /\ calls[c] = <<>>
          /\ (pc[c] \in {"streaming", "join", "join_raise"})
             => raw'[c] = raw[c]
          /\ (wpc[c] = "idle" /\ wpc'[c] # "idle")
             => pc[c] = "received" /\ pc'[c] = "streaming"]_vars

\* A frame has been read after an exchange that was recorded.
C17_Witness ==
    /\ pc[1] = "received"
    /\ Turns(conversation_sessions, 1) # <<>>
    /\ wpc[1] = "idle"
    /\ Branch(raw[1]) = "chat"

(***************************************************************************)
(* C18.  At every point of an exchange whose client is still served, the   *)
(* frames written, followed by the chunks queued, followed by the chunks   *)
(* whose _put is still scheduled, are exactly the events the worker has    *)
(* emitted, in the order emitted: the delta texts are the fragments        *)
(* on_chunk collected, a terminal event is there exactly when the worker   *)
(* has emitted it, and it comes last.                                      *)
(***************************************************************************)
\* The texts of the delta chunks of o, in order.
DeltaTexts(o) ==
    LET ds == SelectSeq(o, LAMBDA ch : ch.type = "delta")
    IN  [i \in 1..Len(ds) |-> ds[i].text]

C18_HandoffOrder ==
    \A c \in Conns :
        pc[c] \in {"streaming", "join"}
        => LET all == out[c] \o q[c] \o calls[c]
           IN  /\ DeltaTexts(all) = assistant_response[c]
               /\ DeltasOnly(SubSeq(all, 1, Len(all) - 1))
               /\ (wpc[c] \in {"closing", "finished"})
                  <=> (all # <<>> /\ Terminal(Last(all)))

\* One delta written, one queued, and the done still to be put.
C18_Witness ==
    /\ pc[1] = "streaming"
    /\ out[1] = <<Chunk("delta", <<"x">>)>>
    /\ q[1] = <<Chunk("delta", <<"x", "y">>)>>
    /\ calls[1] = <<Chunk("done", <<>>)>>

(***************************************************************************)
(* C19.  The worker issues the streaming request at most once and the      *)
(* fallback request at most once, the fallback after the streaming one;    *)
(* and once the streaming request was issued, an error event is emitted    *)
(* only after the fallback request was issued as well (the streaming       *)
(* attempt failed, and so did the fallback).                               *)
(***************************************************************************)
EmitsError(c) ==
    /\ Len(calls'[c]) = Len(calls[c]) + 1
    /\ Last(calls'[c]).type = "error"

Emitted(c) == SubSeq(calls'[c], Len(calls[c]) + 1, Len(calls'[c]))

C20_TerminatingLine ==
    [][/\ \A l \in StreamLines :
             /\ l.form = "DONE" => LineAct(l) = Act("done", <<>>)
             /\ (l.form = "dict" /\ l.part.done /\ HasMessageText(l.part))
                => LineAct(l) = Act("delta_done", l.part.message.content.s)
             /\ (l.form = "dict" /\ l.part.done
                 /\ [l.part EXCEPT !.done = FALSE] = EmptyPart)
                => LineAct(l) = Act("done", <<>>)
             /\ (l.form = "dict" /\ ~l.part.done /\ HasMessageText(l.part))
                => LineAct(l) = Act("delta", l.part.message.content.s)
       /\ \A c \in Conns :
             /\ (nlines'[c] = nlines[c] + 1)
                => /\ wpc[c] = "lines"
                   /\ Len(calls'[c]) <= Len(calls[c]) + 1
                   /\ wpc'[c] = "lines" => DeltasOnly(Emitted(c))
                   /\ wpc'[c] = "tail"
                      => (Emitted(c) # <<>> /\ DeltasOnly(Emitted(c)))
                   /\ wpc'[c] = "closing"
                      => Emitted(c) = <<Chunk("done", <<>>)>>
                   /\ wpc'[c] = "fallback" => Emitted(c) = <<>>
             /\ (wpc[c] = "tail" /\ wpc'[c] # "tail")
                => /\ wpc'[c] = "closing"
                   /\ nlines'[c] = nlines[c]
                   /\ Emitted(c) = <<Chunk("done", <<>>)>>
             /\ (wpc[c] \in {"closing", "finished"})
                => /\ Len(calls'[c]) <= Len(calls[c])
                   /\ nlines'[c] \in {nlines[c], 0}
                   /\ sent'[c] \in {sent[c], <<>>}]_vars

\* The worker has emitted the delta of a done = true payload, its first
\* line, and is about to emit done.
C20_Witness ==
    /\ wpc[1] = "tail"
    /\ nlines[1] = 1
    /\ out[1] \o q[1] \o calls[1] = <<Chunk("delta", <<"x">>)>>

(***************************************************************************)
(* C21.  A session is destroyed only by its connection closing or by       *)
(* having been idle for the ttl.  Without a clock this reads: an entry     *)
(* that is live in the store leaves it only in a step that ends its own    *)
(* handler or in which it times out; and entries time out in the order of  *)
(* their last access, so that when k has timed out, every entry j whose    *)
(* connection accessed it last before k's connection accessed k has timed  *)
(* out as well.  (lru lists the keys in the order of the last lookup or    *)
(* write; for a connection that has recorded no exchange since its session *)
(* was last written empty these are all the accesses it made.)             *)
(***************************************************************************)
Before(s, j, k) ==
    \E a \in 1..Len(s) : \E b \in 1..Len(s) : a < b /\ s[a] = j /\ s[b] = k

C21_DestroyedOnlyIdle ==
    [][\A k \in Conns :
          /\ (Contains(conversation_sessions, k)
              /\ ~Present(conversation_sessions', k))
             => pc'[k] = "closed"
          /\ TimedOut(conversation_sessions', k)
             => \A j \in Conns :
                   (Before(conversation_sessions'.lru, j, k) /\ ndone'[j] = 0)
                   => TimedOut(conversation_sessions', j)]_vars

(***************************************************************************)
(* C22.  The lookup of the connection's session during a chat request      *)
(* always succeeds: the handler that acts on a chat request with a user    *)
(* message goes on to the exchange, with the turns of its session as       *)
(* history, and with no turns when the entry is absent (evicted) or has    *)
(* timed out.                                                              *)
(***************************************************************************)
C22_LookupSucceeds ==
    [][\A c \in Conns :
          (DispatchStep(c) /\ Branch(raw[c]) = "chat")
          => /\ pc'[c] = "streaming"
             /\ wpc'[c] = "create"
             /\ history'[c] = Turns(conversation_sessions, c)]_vars

(***************************************************************************)
(* C23.  The streaming response is closed before the worker turns to the   *)
(* fallback: it is not open while the fallback request is to be issued,    *)
(* when it is issued, or afterwards, so that every error event of the      *)
(* fallback path is handed over with the response closed; the fallback is  *)
(* entered only from opening or iterating the stream.  And once the worker *)
(* has returned, neither the client nor the response is open; a client     *)
(* exists from its creation until then.                                    *)
(***************************************************************************)
C23_ClosedBeforeFallback ==
    [][\A c \in Conns :
          /\ (wpc[c] # "fallback" /\ wpc'[c] = "fallback")
             => (wpc[c] \in {"open", "lines"} /\ ~resp_open'[c])
          /\ (wpc'[c] \in {"fallback", "chunks"}) => ~resp_open'[c]
          /\ (Len(sent'[c]) = 2) => ~resp_open'[c]
          /\ (wpc[c] = "fallback" /\ EmitsError(c)) => ~resp_open[c]
          /\ (wpc'[c] = "finished")
             => (~client_open'[c] /\ ~resp_open'[c])
          /\ (wpc'[c] \in {"open", "lines", "tail", "fallback", "chunks",
                           "closing"})
             => client_open'[c]]_vars

\* The stream broke after a line had been read, the fallback failed as
\* well, and the worker has returned.
C23_Witness ==
    /\ wpc[1] = "finished"
    /\ nlines[1] = 1
    /\ Len(sent[1]) = 2
    /\ Last(out[1] \o q[1] \o calls[1]).type = "error"
    /\ ~client_open[1] /\ ~resp_open[1]

(***************************************************************************)
(* C24.  _call_sync_with_timeout_and_retries makes at most max_retries + 1 *)
(* executor calls, so fn is invoked at most max_retries + 1 times (once    *)
(* when max_retries is 0).  It returns at the first call that yields a     *)
(* result, with that call's result, every earlier call having failed or    *)
(* timed out, and makes no call afterwards.  It raises only after          *)
(* max_retries + 1 calls that all failed or timed out, and what it raises  *)
(* is the failure of the last.  While websocket_chat tries to stream, and  *)
(* when it has streamed, no call of the retry loop was made.               *)
(***************************************************************************)
Invoked(es) == {i \in 1..Len(es) : es[i] \notin {"pending", "cancelled"}}

NoResult(es) ==
    \A i \in 1..Len(es) : es[i] \in {"fail", "timedout", "cancelled"}

C24_RetryBound ==
    [][/\ Len(execs') <= max_retries + 1
       /\ Cardinality(Invoked(execs')) <= max_retries + 1
       /\ (outcome.kind = "none" /\ outcome'.kind = "returned")
          => /\ outcome'.of = Len(execs)
             /\ execs[Len(execs)] = "ok"
             /\ NoResult(SubSeq(execs, 1, Len(execs) - 1))
             /\ execs' = execs
       /\ (outcome.kind = "none" /\ outcome'.kind = "raised")
          => /\ Len(execs') = max_retries + 1
             /\ NoResult(execs')
             /\ outcome'.of = Len(execs')
             /\ outcome'.what = (IF execs'[Len(execs')] = "fail"
                                     THEN "fail" ELSE "timeout")
       /\ outcome.kind # "none" => execs' \in {execs, <<>>}
       /\ spc \in {"try_stream", "streaming"}
          => (execs = <<>> /\ attempt = 0 /\ outcome = NoOutcome)
       /\ spc = "streaming"
          => (execs' = <<>> /\ attempt' = 0 /\ outcome' = NoOutcome)]_vars

\* With one retry allowed, the first call timed out while fn was executing
\* and the second call's result was returned.
C24_Witness ==
    /\ max_retries = 1
    /\ execs = <<"timedout", "ok">>
    /\ outcome = [kind |-> "returned", of |-> 2, what |-> "none"]
    /\ spc = "send"

(***************************************************************************)
(* C29.  At most one upstream call is in flight: no call of fn abandoned   *)
(* at its timeout is still executing when the next executor call is made   *)
(* or when the handler reads the next inbound frame.                       *)
(***************************************************************************)
C29_OneCallInFlight ==
    [][/\ Len(execs') > Len(execs) => abandoned = 0
       /\ (spc = "receive" /\ salive /\ spc' # "receive") => abandoned = 0]_vars

(***************************************************************************)
(* C25.  Whenever the handler records an exchange, the assistant turn it   *)
(* appends is the in-order concatenation of the texts of the delta frames  *)
(* written to the client since the request was read, and of nothing else:  *)
(* the fetched history grows by the user turn and that assistant turn, and *)
(* the session, when the store still shows it, ends with that turn.  The   *)
(* history changes in no other step of an exchange.                        *)
(***************************************************************************)
C25_CommittedIsWritten ==
    [][\A c \in Conns :
          /\ (ConsumeStep(c) /\ history'[c] # history[c])
             => /\ Head(q[c]).type = "done"
                /\ out'[c] = Append(out[c], Head(q[c]))
                /\ DeltaText(out'[c]) # <<>>
                /\ history'[c] =
                       history[c] \o <<Turn("user", user_msg[c]),
                                       Turn("assistant", DeltaText(out'[c]))>>
                /\ Contains(conversation_sessions', c)
                   => Last(conversation_sessions'.data[c])
                          = Turn("assistant", DeltaText(out'[c]))
          /\ (pc[c] \in {"streaming", "join", "join_raise"}
              /\ pc'[c] = pc[c])
             => history'[c] = history[c]]_vars

\* An exchange of two delta frames was recorded after an earlier one.
C25_Witness ==
    /\ pc[1] = "join"
    /\ out[1] = <<Chunk("delta", <<"x">>), Chunk("delta", <<"x", "y">>),
                  Chunk("done", <<>>)>>
    /\ Len(history[1]) = 4
    /\ history[1][4] = Turn("assistant", <<"x", "x", "y">>)
    /\ history[1][2] = Turn("assistant", <<"x">>)

(***************************************************************************)
(* C26.  When the worker emits done after the fallback request, the texts  *)
(* of all delta events of the exchange, joined, are the text of the        *)
(* fallback answer alone: what the broken stream had delivered is not in   *)
(* it a second time.                                                       *)
(***************************************************************************)
EmitsDone(c) ==
    /\ Len(calls'[c]) = Len(calls[c]) + 1
    /\ Last(calls'[c]).type = "done"

C26_OneResponseText ==
    [][\A c \in Conns :
          (EmitsDone(c) /\ Len(sent'[c]) = 2)
          => Join(assistant_response'[c])
                 \in {FallbackText(b) : b \in FallbackBodies}]_vars

(***************************************************************************)
(* C27.  Under fair scheduling of the worker thread, the loop's callbacks  *)
(* and the connection task, every exchange that was started comes to its   *)
(* end: the handler, once in the chunk loop, eventually awaits the next    *)
(* frame or has closed.                                                    *)
(***************************************************************************)
C27_ExchangeEnds ==
    \A c \in Conns :
        (pc[c] = "streaming") ~> (pc[c] \in {"awaiting", "closed"})

(***************************************************************************)
(* C28.  A step in which the handler of a live connection d does not act   *)
(* (a step of another connection's handler or worker, of the loop, or the  *)
(* passing of time) neither removes d's session from the store nor changes *)
(* the turns it holds, whatever the capacity of the store.                 *)
(***************************************************************************)
C28_Isolation ==
    [][\A d \in Conns :
          (/\ pc[d] \notin {"new", "closed"}
           /\ pc'[d] = pc[d]
           /\ q'[d] = q[d]
           /\ Contains(conversation_sessions, d))
          => /\ Present(conversation_sessions', d)
             /\ conversation_sessions'.data[d] = conversation_sessions.data[d]]_vars

====
